---- MODULE Spec2Model ----
(***************************************************************************)
(* Model of the smb.conf editor of services/samba_service.py               *)
(* (SambaService): parse_shares, format_share_config,                      *)
(* _rebuild_config_content, the mutating calls add_user_share,             *)
(* remove_user_share and update_user_share over one configuration file,    *)
(* and create_samba_user and remove_samba_user on top of them; and of the  *)
(* command history of services/command_service.py (CommandService).        *)
(*                                                                         *)
(* Text representation.  A Python str without a newline is a sequence of   *)
(* tokens.  A token is one of the punctuation characters "[", "]", "=",    *)
(* a whitespace run (" " or "   "), or a word: a run of characters that    *)
(* has no leading or trailing whitespace and holds none of "[", "]", "="   *)
(* and no newline ("valid users" is one word).  str.strip, startswith,     *)
(* endswith, slicing, `in` and split('=', 1) are computed on the tokens    *)
(* as Python computes them on the characters.  A file content is the       *)
(* sequence of its lines: content.split('\n') and '\n'.join(lines) are     *)
(* inverse to each other on texts whose lines hold no newline.             *)
(*                                                                         *)
(* A Python dict is a sequence of <<key, value>> pairs in insertion order. *)
(*                                                                         *)
(* Seven specifications share the definitions.                             *)
(*   Spec      a file and a sequence of add/remove/update calls, each call *)
(*             one step: the file is not changed by anyone else between    *)
(*             its reads and its write.  The copy of backup_config can     *)
(*             fail.  write_file opens the file for writing, which empties *)
(*             it, and then encodes the text as UTF-8: a text that holds a *)
(*             lone surrogate raises UnicodeEncodeError there and leaves   *)
(*             the empty file behind.                                      *)
(*   SpecRead  a file with any short text and one read-only call           *)
(*             (parse_shares on the content, list_user_shares).            *)
(*   SpecRace  two calls on the same file whose file accesses interleave:  *)
(*             backup, read, the read of user_share_exists, the open that  *)
(*             empties the file, the write.                                *)
(*   SpecFormat   one call of format_share_config on a name and a dict.    *)
(*   SpecText     a short text and one call of parse_shares or of          *)
(*                _rebuild_config_content on it.                           *)
(*   SpecUser     a file, a host with accounts, and a sequence of          *)
(*                create_samba_user and remove_samba_user calls.           *)
(*   SpecCommand  a CommandService and calls of its methods.               *)
(***************************************************************************)
EXTENDS Integers, Sequences, FiniteSets, TLC

\* ------------------------------------------------------------------ bounds
\* A behaviour is an initial file made of n pieces of text followed by at most
\* MaxSize - n mutating calls.
MaxSize == 4

\* ------------------------------------------------------- Python str helpers
IsSpace(t) == t \in {" ", "   "}

RECURSIVE lstrip(_)
lstrip(s) == IF s # <<>> /\ IsSpace(Head(s)) THEN lstrip(Tail(s)) ELSE s

RECURSIVE rstrip(_)
rstrip(s) ==
  IF s # <<>> /\ IsSpace(s[Len(s)]) THEN rstrip(SubSeq(s, 1, Len(s) - 1)) ELSE s

strip(s) == rstrip(lstrip(s))

startswith(s, p) == Len(s) >= Len(p) /\ SubSeq(s, 1, Len(p)) = p

endswith(s, p) == Len(s) >= Len(p) /\ SubSeq(s, Len(s) - Len(p) + 1, Len(s)) = p

\* s[1:-1]
Inner(s) == SubSeq(s, 2, Len(s) - 1)

\* '=' in s
HasEq(s) == \E i \in 1..Len(s) : s[i] = "="

\* s.split('=', 1), for a string that holds '='
FirstEq(s) == CHOOSE i \in 1..Len(s) : s[i] = "=" /\ \A j \in 1..(i - 1) : s[j] # "="
SplitKey(s) == SubSeq(s, 1, FirstEq(s) - 1)
SplitValue(s) == SubSeq(s, FirstEq(s) + 1, Len(s))

\* ------------------------------------------------------ Python dict helpers
DictHas(d, k) == \E i \in 1..Len(d) : d[i][1] = k

DictIndex(d, k) == CHOOSE i \in 1..Len(d) : d[i][1] = k

DictGet(d, k) == d[DictIndex(d, k)][2]

\* d.setdefault(k, v) : an existing key keeps its value
DictSetFirst(d, k, v) == IF DictHas(d, k) THEN d ELSE Append(d, <<k, v>>)

\* d[k] = v : an existing key keeps its position, a new key goes last
DictSet(d, k, v) ==
  IF DictHas(d, k) THEN [d EXCEPT ![DictIndex(d, k)] = <<k, v>>]
  ELSE Append(d, <<k, v>>)

\* del d[k]
DictDel(d, k) ==
  LET i == DictIndex(d, k)
  IN SubSeq(d, 1, i - 1) \o SubSeq(d, i + 1, Len(d))

\* d.update(patch)
RECURSIVE DictUpdate(_, _)
DictUpdate(d, patch) ==
  IF patch = <<>> THEN d
  ELSE DictUpdate(DictSet(d, Head(patch)[1], Head(patch)[2]), Tail(patch))

\* ------------------------------------------------------------ parse_shares
\* current_share is None or a str in the code and is only ever tested for
\* truth; None and '' are both false, so None is modelled as <<>>.
IsParseHeader(line) ==
  /\ startswith(line, <<"[">>)
  /\ endswith(line, <<"]">>)
  /\ ~ startswith(line, <<"[", "global", "]">>)

\* the key without the strip
ParseKeyUnstripped(line) == SplitKey(line)

\* key.strip() of the setting line key = value
ParseKey(line) == strip(SplitKey(line))

RECURSIVE ParseLoop(_, _, _, _)
ParseLoop(lines, shares, current_share, current_config) ==
  IF lines = <<>>
  THEN IF current_share # <<>> /\ current_config # <<>>
       THEN DictSet(shares, current_share, current_config)
       ELSE shares
  ELSE LET line == strip(Head(lines))
       IN IF IsParseHeader(line)
          THEN ParseLoop(Tail(lines),
                         IF current_share # <<>> /\ current_config # <<>>
                         THEN DictSet(shares, current_share, current_config)
                         ELSE shares,
                         Inner(line), <<>>)
          ELSE IF current_share # <<>> /\ HasEq(line)
          THEN ParseLoop(Tail(lines), shares, current_share,
                         DictSet(current_config, ParseKey(line),
                                 strip(SplitValue(line))))
          ELSE ParseLoop(Tail(lines), shares, current_share, current_config)

parse_shares(content) == ParseLoop(content, <<>>, <<>>, <<>>)

\* ----------------------------------------------------- format_share_config
\* The returned str is represented by its lines.
\* the settings in reverse order
RECURSIVE FormatSettingsReversed(_)
FormatSettingsReversed(config) ==
  IF config = <<>> THEN <<>>
  ELSE FormatSettingsReversed(Tail(config))
       \o << <<"   ">> \o Head(config)[1] \o <<" ", "=", " ">> \o Head(config)[2] >>

RECURSIVE FormatSettings(_)
FormatSettings(config) ==
  IF config = <<>> THEN <<>>
  ELSE << <<"   ">> \o Head(config)[1] \o <<" ", "=", " ">> \o Head(config)[2] >>
       \o FormatSettings(Tail(config))

format_share_config(share_name, config) ==
  << <<"[">> \o share_name \o <<"]">> >> \o FormatSettings(config)

\* ------------------------------------------------- _rebuild_config_content
\* the list without printers
RebuildReservedNoPrinters ==
  { <<"global">>, <<"print$">>, <<"homes">>, <<"netlogon">>, <<"profiles">> }

RebuildReserved ==
  { <<"global">>, <<"printers">>, <<"print$">>, <<"homes">>,
    <<"netlogon">>, <<"profiles">> }

IsRebuildHeader(line) ==
  startswith(strip(line), <<"[">>) /\ endswith(strip(line), <<"]">>)

\* the scan that does not leave the user share at a reserved header
RECURSIVE RebuildScanNoReset(_, _)
RebuildScanNoReset(lines, in_share_section) ==
  IF lines = <<>> THEN <<>>
  ELSE LET line == Head(lines)
       IN IF IsRebuildHeader(line)
          THEN IF Inner(strip(line)) \notin RebuildReserved
               THEN RebuildScanNoReset(Tail(lines), TRUE)
               ELSE <<line>> \o RebuildScanNoReset(Tail(lines), in_share_section)
          ELSE IF in_share_section
          THEN RebuildScanNoReset(Tail(lines), in_share_section)
          ELSE <<line>> \o RebuildScanNoReset(Tail(lines), in_share_section)

RECURSIVE RebuildScan(_, _)
RebuildScan(lines, in_share_section) ==
  IF lines = <<>> THEN <<>>
  ELSE LET line == Head(lines)
       IN IF IsRebuildHeader(line)
          THEN IF Inner(strip(line)) \notin RebuildReserved
               THEN RebuildScan(Tail(lines), TRUE)
               ELSE <<line>> \o RebuildScan(Tail(lines), FALSE)
          ELSE IF in_share_section
          THEN RebuildScan(Tail(lines), TRUE)
          ELSE <<line>> \o RebuildScan(Tail(lines), FALSE)

\* the append loop without the filter on the share name
RECURSIVE RebuildAppendAll(_)
RebuildAppendAll(shares) ==
  IF shares = <<>> THEN <<>>
  ELSE << <<>> >> \o format_share_config(Head(shares)[1], Head(shares)[2])
       \o RebuildAppendAll(Tail(shares))

\* the append loop without the blank line before a share
RECURSIVE RebuildAppendNoBlank(_)
RebuildAppendNoBlank(shares) ==
  IF shares = <<>> THEN <<>>
  ELSE (IF Head(shares)[1] \notin RebuildReserved
        THEN format_share_config(Head(shares)[1], Head(shares)[2])
        ELSE <<>>)
       \o RebuildAppendNoBlank(Tail(shares))

RECURSIVE RebuildAppend(_)
RebuildAppend(shares) ==
  IF shares = <<>> THEN <<>>
  ELSE (IF Head(shares)[1] \notin RebuildReserved
        THEN << <<>> >> \o format_share_config(Head(shares)[1], Head(shares)[2])
        ELSE <<>>)
       \o RebuildAppend(Tail(shares))

\* '\n'.join(new_lines): the text of no line at all is the empty text, whose
\* split('\n') is one empty line
Join(new_lines) == IF new_lines = <<>> THEN << <<>> >> ELSE new_lines

_rebuild_config_content(original_content, shares) ==
  Join(RebuildScan(original_content, FALSE) \o RebuildAppend(shares))

\* ------------------------------------------------------------ the file
\* The configuration file at smb_conf_path: it exists or not, and has a
\* content.  backup is the newest file of backup_dir.  ret is what the last
\* call of a function without effect on the file returned.  tail is what lies in the file behind content:
\* nothing, or the end of a longer text an overlapping writer had put there.
\* proc holds the calls in progress when calls overlap, sched their history.
\* system_users are the accounts of the host (what `id username` finds).
\* command_history is the list of the same name of a CommandService.
VARIABLES smb_conf, backup, mem, last, before, calls_left, ret, tail, proc, sched,
          system_users, command_history

vars ==
  <<smb_conf, backup, mem, last, before, calls_left, ret, tail, proc, sched,
    system_users, command_history>>

\* nothing behind the content
NoTail == <<>>

\* no call in progress
NoProc == <<>>

NoSched == [overlap |-> FALSE, writers |-> <<>>]

Missing == [exists |-> FALSE, content |-> <<>>]

File(content) == [exists |-> TRUE, content |-> content]

None == << <<"None">> >>

Header(name) == <<"[", name, "]">>

Setting(key, value) == <<"   ", key, " ", "=", " ", value>>

\* Pieces of smb.conf text the initial file is made of.
FragGlobal == << Header("global"), Setting("workgroup", "WORKGROUP") >>
FragPrinters == << Header("printers"), <<"path", "=", "/var/tmp">> >>
FragMain == << Header("main"), <<" ", "path", " ", "=", "/home/server/hdds/main">> >>
FragEric ==
  << Header("eric"), Setting("path", "/home/server/hdds/main/users/eric"),
     Setting("browseable", "yes") >>
FragBare == << Header("eric") >>
FragComment == << <<"#", " ", "Sample configuration file for the Samba suite">> >>

Fragments ==
  { FragGlobal, FragPrinters, FragMain, FragEric, FragBare, FragComment }

RECURSIVE Concat(_)
Concat(fs) == IF fs = <<>> THEN <<>> ELSE Head(fs) \o Concat(Tail(fs))

\* the texts made of n different pieces, in any order
Documents(n) ==
  { Concat(fs) :
      fs \in { f \in [1..n -> Fragments] : \A i, j \in 1..n : f[i] = f[j] => i = j } }

\* ---------------------------------------------------------------- inputs
Usernames == { <<"eric">>, <<"printers">>, <<"global">> }

\* a str with a lone surrogate (U+DCFF), which str.encode('utf-8') rejects
LoneSurrogate == "/srv/<U+DCFF>"

Paths == { <<"/srv/new">> }

\* the username and path of the add_user_share calls: every username with
\* an ordinary path, and one call whose path cannot be encoded
AddArguments ==
  (Usernames \X Paths) \cup { << <<"eric">>, <<LoneSurrogate>> >> }

Browseables == { <<"no">> }

DefaultCreateMask == <<"0660">>

DefaultDirectoryMask == <<"0770">>

\* the keyword arguments of update_user_share, in call order
Patches ==
  { << <<<<"browseable">>, <<"no">>>>, <<<<"create_mask">>, <<"0640">>>> >> }

\* last records the newest call: its name, its username, its other arguments
\* (add: path, browseable, create_mask, directory_mask; update: the keyword
\* arguments) and the bool it returned.
\* copy_ok tells whether shutil.copy2 would succeed, backed whether
\* backup_config returned, wrote whether write_config was invoked.
\* test_config tells what test_config returned in create_samba_user and
\* remove_samba_user ("valid", "invalid") or that it was not run; removed
\* tells what the remove_user_share of remove_samba_user returned.
NoCall ==
  [op |-> "none", username |-> <<>>, args |-> <<>>, ok |-> FALSE,
   copy_ok |-> FALSE, backed |-> FALSE, wrote |-> FALSE,
   test_config |-> "not run", removed |-> FALSE]

\* ----------------------------------------------------------- read access
user_share_exists(conf, username) ==
  conf.exists /\ DictHas(parse_shares(conf.content), username)

get_user_share_config(conf, username) ==
  IF user_share_exists(conf, username)
  THEN DictGet(parse_shares(conf.content), username)
  ELSE None

\* the backup is taken although the copy failed
backup_config_ok_unchecked(conf, copy_ok) == conf.exists

\* backup_config succeeds when the file exists and the copy does
backup_config_ok(conf, copy_ok) == conf.exists /\ copy_ok

\* the copy is not made: the backup file stays the older one
backup_config_stale(conf, old_backup) == old_backup

\* the file shutil.copy2 leaves in backup_dir
backup_config(conf, old_backup) == conf

\* f.write(content) of write_file: the UTF-8 encoding of the text succeeds
Encodable(content) ==
  \A i \in 1..Len(content) : \A j \in 1..Len(content[i]) :
     content[i][j] # LoneSurrogate

\* the file write_file leaves: open(file_path, 'w') empties it, f.write fills it
write_file(content) ==
  IF Encodable(content) THEN File(content) ELSE File(<< <<>> >>)

\* The try block shared by the three calls: backup_config, read_config, the
\* existence test (allowed), the new content, write_config.  Gives what the
\* call leaves (file, backup), what it returns (ok) and how far it went.
Mutation(conf, old_backup, copy_ok, allowed, new_content) ==
  LET backed == backup_config_ok(conf, copy_ok)
      wrote == backed /\ allowed
      written == IF wrote THEN write_file(new_content) ELSE conf
  IN [file |-> written,
      backup |-> IF backed THEN backup_config(conf, old_backup) ELSE old_backup,
      ok |-> wrote /\ written = File(new_content),
      copy_ok |-> copy_ok, backed |-> backed, wrote |-> wrote]

Returned(op, username, args, m) ==
  [op |-> op, username |-> username, args |-> args, ok |-> m.ok,
   copy_ok |-> m.copy_ok, backed |-> m.backed, wrote |-> m.wrote,
   test_config |-> "not run", removed |-> FALSE]

\* -------------------------------------------- the in-memory section map
\* The dict operations of the three calls, each behind its existence test.
ShareAdd(shares, username, config) ==
  IF DictHas(shares, username) THEN shares ELSE DictSet(shares, username, config)

ShareRemove(shares, username) ==
  IF DictHas(shares, username) THEN DictDel(shares, username) ELSE shares

ShareUpdate(shares, username, patch) ==
  IF DictHas(shares, username)
  THEN DictSet(shares, username, DictUpdate(DictGet(shares, username), patch))
  ELSE shares

\* ------------------------------------------------------------------ Init
Init ==
  /\ \E n \in 1..(MaxSize - 1) :
        /\ smb_conf \in { File(d) : d \in Documents(n) } \cup { Missing }
        /\ calls_left = MaxSize - n
  /\ backup = Missing
  /\ mem = IF smb_conf.exists THEN parse_shares(smb_conf.content) ELSE <<>>
  /\ last = NoCall
  /\ before = smb_conf
  /\ ret = None
  /\ tail = NoTail
  /\ proc = NoProc
  /\ sched = NoSched
  /\ system_users = {}
  /\ command_history = <<>>

\* ------------------------------------------------------------- the calls
NewShareConfig(username, path, browseable, create_mask, directory_mask) ==
  << << <<"path">>, path >>,
     << <<"valid users">>, username >>,
     << <<"read only">>, <<"no">> >>,
     << <<"browseable">>, browseable >>,
     << <<"create mask">>, create_mask >>,
     << <<"directory mask">>, directory_mask >> >>

AddContent(content, username, config) ==
  _rebuild_config_content(content, DictSet(parse_shares(content), username, config))

\* what add_user_share does to a file
add_result(conf, old_backup, username, config, copy_ok) ==
  Mutation(conf, old_backup, copy_ok, ~ user_share_exists(conf, username),
           AddContent(conf.content, username, config))

add_user_share(username, path, browseable, create_mask, directory_mask, copy_ok) ==
  LET config == NewShareConfig(username, path, browseable, create_mask,
                               directory_mask)
  IN /\ calls_left > 0
     /\ \E m \in { add_result(smb_conf, backup, username, config, copy_ok) } :
        /\ backup' = m.backup
        /\ smb_conf' = m.file
        /\ mem' = IF m.backed THEN ShareAdd(mem, username, config) ELSE mem
        /\ last' = Returned("add", username,
                             <<path, browseable, create_mask, directory_mask>>, m)
        /\ before' = smb_conf
        /\ calls_left' = calls_left - 1
     /\ UNCHANGED <<ret, tail, proc, sched, system_users, command_history>>

RemoveContent(content, username) ==
  LET shares == parse_shares(content)
  IN _rebuild_config_content(content,
       IF DictHas(shares, username) THEN DictDel(shares, username) ELSE shares)

\* what remove_user_share does to a file
remove_result(conf, old_backup, username, copy_ok) ==
  Mutation(conf, old_backup, copy_ok, user_share_exists(conf, username),
           RemoveContent(conf.content, username))

remove_user_share(username, copy_ok) ==
  /\ calls_left > 0
  /\ \E m \in { remove_result(smb_conf, backup, username, copy_ok) } :
     /\ backup' = m.backup
     /\ smb_conf' = m.file
     /\ mem' = IF m.backed THEN ShareRemove(mem, username) ELSE mem
     /\ last' = Returned("remove", username, <<>>, m)
     /\ before' = smb_conf
     /\ calls_left' = calls_left - 1
     /\ UNCHANGED <<ret, tail, proc, sched, system_users, command_history>>

UpdateContent(content, username, patch) ==
  LET shares == parse_shares(content)
  IN _rebuild_config_content(content,
       IF DictHas(shares, username)
       THEN DictSet(shares, username, DictUpdate(DictGet(shares, username), patch))
       ELSE shares)

\* what update_user_share does to a file
update_result(conf, old_backup, username, patch, copy_ok) ==
  Mutation(conf, old_backup, copy_ok, user_share_exists(conf, username),
           UpdateContent(conf.content, username, patch))

update_user_share(username, patch, copy_ok) ==
  /\ calls_left > 0
  /\ \E m \in { update_result(smb_conf, backup, username, patch, copy_ok) } :
     /\ backup' = m.backup
     /\ smb_conf' = m.file
     /\ mem' = IF m.backed THEN ShareUpdate(mem, username, patch) ELSE mem
     /\ last' = Returned("update", username, patch, m)
     /\ before' = smb_conf
     /\ calls_left' = calls_left - 1
     /\ UNCHANGED <<ret, tail, proc, sched, system_users, command_history>>

Next ==
  \/ \E a \in AddArguments, b \in Browseables, c \in BOOLEAN :
       add_user_share(a[1], a[2], b, DefaultCreateMask, DefaultDirectoryMask, c)
  \/ \E u \in Usernames, c \in BOOLEAN : remove_user_share(u, c)
  \/ \E u \in Usernames, pt \in Patches, c \in BOOLEAN : update_user_share(u, pt, c)

Spec == Init /\ [][Next]_vars

\* ------------------------------------------------------ the read-only calls
\* A behaviour of SpecRead is a file with any text of at most MaxLines lines
\* and one read-only call on it.
MaxLines == 4

SectionNames ==
  { "global", "printers", "print$", "homes", "netlogon", "profiles", "main" }

SettingLines ==
  { Setting("path", "/a"), <<"path", "=", "/b">>,
    <<"browseable", " ", "=", "yes">> }

ReadLines == { Header(n) : n \in SectionNames } \cup SettingLines

Texts(n) == UNION { [1..k -> ReadLines] : k \in 1..n }

\* the filter of list_user_shares, main added
ListExcludedAndMain ==
  { <<"printers">>, <<"print$">>, <<"homes">>, <<"netlogon">>, <<"profiles">>,
    <<"main">> }

ListExcluded ==
  { <<"printers">>, <<"print$">>, <<"homes">>, <<"netlogon">>, <<"profiles">> }

RECURSIVE ListLoop(_)
ListLoop(shares) ==
  IF shares = <<>> THEN <<>>
  ELSE (IF Head(shares)[1] \notin ListExcluded
        THEN << [username |-> Head(shares)[1], config |-> Head(shares)[2]] >>
        ELSE <<>>)
       \o ListLoop(Tail(shares))

list_user_shares(conf) ==
  IF conf.exists THEN ListLoop(parse_shares(conf.content)) ELSE <<>>

InitRead ==
  /\ smb_conf \in { File(t) : t \in Texts(MaxLines) } \cup { Missing }
  /\ backup = Missing
  /\ mem = <<>>
  /\ last = NoCall
  /\ before = smb_conf
  /\ calls_left = 0
  /\ ret = None
  /\ tail = NoTail
  /\ proc = NoProc
  /\ sched = NoSched
  /\ system_users = {}
  /\ command_history = <<>>

\* content = read_config(); shares = parse_shares(content)
ParseConfig ==
  /\ last.op = "none"
  /\ smb_conf.exists
  /\ ret' = parse_shares(smb_conf.content)
  /\ last' = [NoCall EXCEPT !.op = "parse_shares", !.ok = TRUE]
  /\ UNCHANGED <<smb_conf, backup, mem, before, calls_left, tail, proc, sched,
                 system_users, command_history>>

ListUserShares ==
  /\ last.op = "none"
  /\ ret' = list_user_shares(smb_conf)
  /\ last' = [NoCall EXCEPT !.op = "list_user_shares", !.ok = TRUE]
  /\ UNCHANGED <<smb_conf, backup, mem, before, calls_left, tail, proc, sched,
                 system_users, command_history>>

NextRead == ParseConfig \/ ListUserShares

SpecRead == InitRead /\ [][NextRead]_vars

\* ------------------------------------------------------ overlapping calls
\* Under SpecRace two calls run on the same file without a lock; a step is
\* one access to the file.  The initial file is made of at most
\* MaxRaceFragments pieces.
MaxRaceFragments == 2

Procs == { "A", "B" }

\* the call of A is one of the three calls on eric, the call of B adds bob
\* or adds eric with other settings
RaceCalls(p) ==
  IF p = "A"
  THEN { [op |-> "add", username |-> <<"eric">>,
          args |-> << <<"/srv/new">>, <<"no">>, DefaultCreateMask,
                      DefaultDirectoryMask >>],
         [op |-> "update", username |-> <<"eric">>,
          args |-> << << <<"browseable">>, <<"no">> >> >>],
         [op |-> "remove", username |-> <<"eric">>, args |-> <<>>] }
  ELSE { [op |-> "add", username |-> <<"bob">>,
          args |-> << <<"/srv/bob">>, <<"yes">>, DefaultCreateMask,
                      DefaultDirectoryMask >>],
         [op |-> "add", username |-> <<"eric">>,
          args |-> << <<"/srv/other">>, <<"yes">>, DefaultCreateMask,
                      DefaultDirectoryMask >>] }

\* len(line), len(text) in characters; the lines are joined by one newline
RECURSIVE LineLen(_)
LineLen(line) == IF line = <<>> THEN 0 ELSE Len(Head(line)) + LineLen(Tail(line))

RECURSIVE TextLen(_)
TextLen(text) ==
  IF text = <<>> THEN 0
  ELSE IF Len(text) = 1 THEN LineLen(text[1])
  ELSE LineLen(Head(text)) + 1 + TextLen(Tail(text))

\* the new content a call computes from the content it has read
NewContent(call, content) ==
  IF call.op = "add"
  THEN AddContent(content, call.username,
                  NewShareConfig(call.username, call.args[1], call.args[2],
                                 call.args[3], call.args[4]))
  ELSE IF call.op = "remove" THEN RemoveContent(content, call.username)
  ELSE UpdateContent(content, call.username, call.args)

\* the existence test of the call passes on this file
Allowed(call, conf) ==
  IF call.op = "add" THEN ~ user_share_exists(conf, call.username)
  ELSE user_share_exists(conf, call.username)

InitRace ==
  /\ \E n \in 1..MaxRaceFragments :
        smb_conf \in { File(d) : d \in Documents(n) } \cup { Missing }
  /\ backup = Missing
  /\ mem = <<>>
  /\ last = NoCall
  /\ before = smb_conf
  /\ calls_left = 0
  /\ ret = None
  /\ tail = NoTail
  /\ \E a \in RaceCalls("A"), b \in RaceCalls("B") :
        proc = [p \in Procs |->
                  [call |-> IF p = "A" THEN a ELSE b, pc |-> "backup_config",
                   content |-> <<>>, ok |-> FALSE]]
  /\ sched = NoSched
  /\ system_users = {}
  /\ command_history = <<>>

Other(p) == CHOOSE q \in Procs : q # p

InProgress(p) == proc[p].pc \notin { "backup_config", "done" }

Unchanged ==
  UNCHANGED <<mem, last, before, calls_left, ret, system_users, command_history>>

\* self.backup_config(): raises when the file is missing, else copies it
BackupStep(p) ==
  /\ proc[p].pc = "backup_config"
  /\ backup' = IF smb_conf.exists THEN backup_config(smb_conf, backup) ELSE backup
  /\ proc' = [proc EXCEPT ![p].pc = IF smb_conf.exists THEN "read_config" ELSE "done"]
  /\ sched' = [sched EXCEPT !.overlap = @ \/ InProgress(Other(p))]
  /\ UNCHANGED <<smb_conf, tail>>
  /\ Unchanged

\* content = self.read_config().  A read never meets a tail: the write that
\* leaves one is the second write of two calls that both had the file open,
\* and neither call reads after it.
ReadStep(p) ==
  /\ proc[p].pc = "read_config"
  /\ proc' = [proc EXCEPT ![p].pc = "user_share_exists",
                           ![p].content = smb_conf.content]
  /\ UNCHANGED <<smb_conf, backup, tail, sched>>
  /\ Unchanged

\* self.user_share_exists(username), which reads the file once more
ExistsStep(p) ==
  /\ proc[p].pc = "user_share_exists"
  /\ proc' = [proc EXCEPT ![p].pc = IF Allowed(proc[p].call, smb_conf)
                                      THEN "open" ELSE "done"]
  /\ UNCHANGED <<smb_conf, backup, tail, sched>>
  /\ Unchanged

\* open(file_path, 'w') of write_file: the file is emptied
OpenStep(p) ==
  /\ proc[p].pc = "open"
  /\ smb_conf' = File(<< <<>> >>)
  /\ tail' = NoTail
  /\ proc' = [proc EXCEPT ![p].pc = "write"]
  /\ UNCHANGED <<backup, sched>>
  /\ Unchanged

\* f.write(content) and the close of write_file: the text goes to the
\* start of the file; what another writer has put behind its end stays
WriteStep(p) ==
  /\ proc[p].pc = "write"
  /\ \E new \in { NewContent(proc[p].call, proc[p].content) } :
        /\ smb_conf' = File(new)
        /\ tail' = IF TextLen(smb_conf.content) > TextLen(new)
                    THEN [of |-> smb_conf.content, from |-> TextLen(new)]
                    ELSE NoTail
  /\ proc' = [proc EXCEPT ![p].pc = "done", ![p].ok = TRUE]
  /\ sched' = [sched EXCEPT !.writers = Append(@, p)]
  /\ UNCHANGED backup
  /\ Unchanged

NextRace ==
  \E p \in Procs :
     \/ BackupStep(p)
     \/ ReadStep(p)
     \/ ExistsStep(p)
     \/ OpenStep(p)
     \/ WriteStep(p)

SpecRace == InitRace /\ [][NextRace]_vars

\* ------------------------------------------------- format_share_config
\* A behaviour of SpecFormat is one call of format_share_config on a share
\* name and a dict of at most MaxSettings settings; no file is involved.
MaxSettings == 2

FormatNames == { <<"testuser">>, <<"global">>, <<" ", "eric", " ">> }

FormatKeys == { <<"path">>, <<"valid users">>, <<"read only">> }

FormatValues == { <<"/test/path">>, <<"testuser">>, <<"no">> }

\* the dicts of k settings: k different keys in any order, any values
FormatConfigs(k) ==
  { c \in [1..k -> FormatKeys \X FormatValues] :
      \A i, j \in 1..k : c[i][1] = c[j][1] => i = j }

InitFormat ==
  /\ smb_conf = Missing
  /\ backup = Missing
  /\ mem = <<>>
  /\ last = NoCall
  /\ before = smb_conf
  /\ calls_left = 0
  /\ ret = None
  /\ tail = NoTail
  /\ proc = NoProc
  /\ sched = NoSched
  /\ system_users = {}
  /\ command_history = <<>>

FormatShareConfig(share_name, config) ==
  /\ last.op = "none"
  /\ ret' = format_share_config(share_name, config)
  /\ last' = [NoCall EXCEPT !.op = "format_share_config", !.username = share_name,
                            !.args = config, !.ok = TRUE]
  /\ UNCHANGED <<smb_conf, backup, mem, before, calls_left, tail, proc, sched,
                 system_users, command_history>>

NextFormat ==
  \E share_name \in FormatNames, k \in 0..MaxSettings :
     \E config \in FormatConfigs(k) : FormatShareConfig(share_name, config)

SpecFormat == InitFormat /\ [][NextFormat]_vars

\* ------------------------------------------ create / remove_samba_user
\* A behaviour of SpecUser is an initial file made of n pieces of text, a
\* host with some accounts, and at most MaxUserSize - n calls of
\* create_samba_user and remove_samba_user.  The commands the two calls run
\* (id, useradd, chpasswd, smbpasswd, chown, userdel, testparm, systemctl)
\* are programs of the host: what they return is an input of the call.
MaxUserSize == 3

SambaUsers == { <<"eric">>, <<"bob">> }

\* user_exists: `id username` returns 0
user_exists(users, username) == username \in users

\* share_path or f"/home/server/hdds/main/users/{username}", share_path None
DefaultSharePath(username) == << "/home/server/hdds/main/users/" \o username[1] >>

InitUser ==
  /\ \E n \in 1..(MaxUserSize - 1) :
        /\ smb_conf \in { File(d) : d \in Documents(n) } \cup { Missing }
        /\ calls_left = MaxUserSize - n
  /\ backup = Missing
  /\ mem = <<>>
  /\ last = NoCall
  /\ before = smb_conf
  /\ ret = None
  /\ tail = NoTail
  /\ proc = NoProc
  /\ sched = NoSched
  /\ system_users \in SUBSET SambaUsers
  /\ command_history = <<>>

\* what the call leaves when it stops before it touches the file
Untouched(conf, old_backup) ==
  [file |-> conf, backup |-> old_backup, ok |-> FALSE, copy_ok |-> FALSE,
   backed |-> FALSE, wrote |-> FALSE]

\* test_config() and reload_samba(), run one after the other
TestAndReload(valid, reloaded) ==
  [test_config |-> IF valid THEN "valid" ELSE "invalid", ok |-> valid /\ reloaded]

\* useradd_ok: useradd returns 0.  setup_ok: chpasswd and smbpasswd -a
\* return 0 and os.makedirs does not raise.  valid, reloaded: what
\* test_config and reload_samba return.
create_samba_user(username, useradd_ok, setup_ok, copy_ok, valid, reloaded) ==
  /\ calls_left > 0
  /\ \E reached \in { ~ user_exists(system_users, username) /\ useradd_ok /\ setup_ok } :
     \E m \in { IF reached
                THEN add_result(smb_conf, backup, username,
                                NewShareConfig(username, DefaultSharePath(username),
                                               <<"yes">>, DefaultCreateMask,
                                               DefaultDirectoryMask),
                                copy_ok)
                ELSE Untouched(smb_conf, backup) } :
     \E t \in { IF m.ok THEN TestAndReload(valid, reloaded)
                ELSE [test_config |-> "not run", ok |-> FALSE] } :
        /\ system_users' =
             IF ~ user_exists(system_users, username) /\ useradd_ok
             THEN system_users \cup { username } ELSE system_users
        /\ backup' = m.backup
        /\ smb_conf' = m.file
        /\ last' = [Returned("create_samba_user", username, <<>>, m)
                      EXCEPT !.ok = t.ok, !.test_config = t.test_config]
        /\ before' = smb_conf
        /\ calls_left' = calls_left - 1
        /\ UNCHANGED <<mem, ret, tail, proc, sched, command_history>>

\* userdel_ok: userdel returns 0; what smbpasswd -x returns is only printed.
remove_samba_user(username, copy_ok, userdel_ok, valid, reloaded) ==
  /\ calls_left > 0
  /\ \E reached \in { user_exists(system_users, username) } :
     \E m \in { IF reached
                THEN remove_result(smb_conf, backup, username, copy_ok)
                ELSE Untouched(smb_conf, backup) } :
     \E t \in { IF reached THEN TestAndReload(valid, reloaded)
                ELSE [test_config |-> "not run", ok |-> FALSE] } :
        /\ system_users' =
             IF reached /\ userdel_ok THEN system_users \ { username }
             ELSE system_users
        /\ backup' = m.backup
        /\ smb_conf' = m.file
        /\ last' = [Returned("remove_samba_user", username, <<>>, m)
                      EXCEPT !.ok = t.ok, !.test_config = t.test_config,
                             !.removed = m.ok]
        /\ before' = smb_conf
        /\ calls_left' = calls_left - 1
        /\ UNCHANGED <<mem, ret, tail, proc, sched, command_history>>

NextUser ==
  \/ \E u \in SambaUsers, a, b, c, d, e \in BOOLEAN :
        create_samba_user(u, a, b, c, d, e)
  \/ \E u \in SambaUsers, a, b, c, d \in BOOLEAN : remove_samba_user(u, a, b, c, d)

SpecUser == InitUser /\ [][NextUser]_vars

\* ----------------------------------------------------- CommandService
\* A behaviour of SpecCommand is one CommandService and calls of its
\* methods, at most MaxHistory of them calls of run.  What the shell does
\* with a command is an input of run: it exits with a code, it runs into
\* the timeout, or subprocess.run raises another exception.  The timestamp
\* of a result is the number of runs started before it; execution_time,
\* stdout and the stderr of a command that exits are left out.  before is
\* the history before the newest call.
MaxHistory == 3

CommandTexts == { "echo 'test1'", "pwd" }

RunOutcomes == { "exit 0", "exit 1", "TimeoutExpired", "Exception" }

\* the CommandResult run builds for an outcome
CommandResult(command, outcome, timestamp) ==
  IF outcome = "TimeoutExpired"
  THEN [command |-> command, stderr |-> <<"Comando expirou após 30 segundos">>,
        return_code |-> -1, timestamp |-> timestamp, success |-> FALSE]
  ELSE IF outcome = "Exception"
  THEN [command |-> command, stderr |-> <<"str(e)">>,
        return_code |-> -1, timestamp |-> timestamp, success |-> FALSE]
  ELSE [command |-> command, stderr |-> <<>>,
        return_code |-> IF outcome = "exit 0" THEN 0 ELSE 1,
        timestamp |-> timestamp, success |-> outcome = "exit 0"]

\* the result is kept only when the command succeeded
HistoryAppendOnSuccess(history, result) ==
  IF result.success THEN Append(history, result) ELSE history

\* self.command_history.append(result)
HistoryAppend(history, result) == Append(history, result)

InitCommand ==
  /\ smb_conf = Missing
  /\ backup = Missing
  /\ mem = <<>>
  /\ last = NoCall
  /\ before = <<>>
  /\ calls_left = MaxHistory
  /\ ret = None
  /\ tail = NoTail
  /\ proc = NoProc
  /\ sched = NoSched
  /\ system_users = {}
  /\ command_history = <<>>

NotTheHistory ==
  UNCHANGED <<smb_conf, backup, mem, tail, proc, sched, system_users>>

run(command, outcome) ==
  /\ calls_left > 0
  /\ \E result \in { CommandResult(command, outcome, MaxHistory - calls_left) } :
        /\ command_history' = HistoryAppend(command_history, result)
        /\ ret' = result
        /\ last' = [NoCall EXCEPT !.op = "run", !.ok = result.success]
  /\ before' = command_history
  /\ calls_left' = calls_left - 1
  /\ NotTheHistory

\* cd builds its CommandResult without run
cd(chdir_ok) ==
  /\ ret' = [command |-> "cd /tmp", stderr |-> IF chdir_ok THEN <<>> ELSE <<"str(e)">>,
             return_code |-> IF chdir_ok THEN 0 ELSE -1,
             timestamp |-> MaxHistory - calls_left, success |-> chdir_ok]
  /\ last' = [NoCall EXCEPT !.op = "cd", !.ok = chdir_ok]
  /\ before' = command_history
  /\ UNCHANGED <<command_history, calls_left>>
  /\ NotTheHistory

\* limit 0 stands for the default None as well: both are false in `if limit`
get_history(limit) ==
  /\ ret' = IF limit # 0
            THEN SubSeq(command_history,
                        IF limit >= Len(command_history) THEN 1
                        ELSE Len(command_history) - limit + 1,
                        Len(command_history))
            ELSE command_history
  /\ last' = [NoCall EXCEPT !.op = "get_history", !.args = limit, !.ok = TRUE]
  /\ before' = command_history
  /\ UNCHANGED <<command_history, calls_left>>
  /\ NotTheHistory

get_last_result ==
  /\ ret' = IF command_history # <<>> THEN command_history[Len(command_history)]
            ELSE None
  /\ last' = [NoCall EXCEPT !.op = "get_last_result", !.ok = TRUE]
  /\ before' = command_history
  /\ UNCHANGED <<command_history, calls_left>>
  /\ NotTheHistory

clear_history ==
  /\ command_history' = <<>>
  /\ ret' = None
  /\ last' = [NoCall EXCEPT !.op = "clear_history", !.ok = TRUE]
  /\ before' = command_history
  /\ UNCHANGED calls_left
  /\ NotTheHistory

NextCommand ==
  \/ \E command \in CommandTexts, outcome \in RunOutcomes : run(command, outcome)
  \/ \E chdir_ok \in BOOLEAN : cd(chdir_ok)
  \/ \E limit \in 0..MaxHistory : get_history(limit)
  \/ get_last_result
  \/ clear_history

SpecCommand == InitCommand /\ [][NextCommand]_vars

\* ------------------------------------------------- the text functions
\* A behaviour of SpecText is a text of at most MaxTextLines lines and one
\* call of parse_shares or of _rebuild_config_content on it, the latter
\* with the parse of the text or with a map of at most MaxShares shares.
MaxTextLines == 3

MaxShares == 2

TextLines ==
  { Header("eric"), <<"[", " ", "eric", " ", "]">>, Header("global"),
    <<"[", " ", "global", " ", "]">>, Header("printers"), Header("main"),
    Setting("path", "/a"), <<>> }

MapNames == { <<"eric">>, <<"bob">>, <<"printers">> }

OneSetting == << << <<"path">>, <<"/srv">> >> >>

\* the maps of k shares: k different names in any order
ShareMaps(k) ==
  { [i \in 1..k |-> <<names[i], OneSetting>>] :
      names \in { f \in [1..k -> MapNames] : \A i, j \in 1..k : f[i] = f[j] => i = j } }

InitText ==
  /\ smb_conf \in { File(t) : t \in UNION { [1..k -> TextLines] : k \in 1..MaxTextLines } }
  /\ backup = Missing
  /\ mem = <<>>
  /\ last = NoCall
  /\ before = smb_conf
  /\ calls_left = 0
  /\ ret = None
  /\ tail = NoTail
  /\ proc = NoProc
  /\ sched = NoSched
  /\ system_users = {}
  /\ command_history = <<>>

\* new_content = self._rebuild_config_content(content, shares)
RebuildConfigContent(shares) ==
  /\ last.op = "none"
  /\ ret' = _rebuild_config_content(smb_conf.content, shares)
  /\ last' = [NoCall EXCEPT !.op = "_rebuild_config_content", !.args = shares,
                            !.ok = TRUE]
  /\ UNCHANGED <<smb_conf, backup, mem, before, calls_left, tail, proc, sched,
                 system_users, command_history>>

NextText ==
  \/ ParseConfig
  \/ RebuildConfigContent(parse_shares(smb_conf.content))
  \/ \E k \in 0..MaxShares : \E shares \in ShareMaps(k) : RebuildConfigContent(shares)

SpecText == InitText /\ [][NextText]_vars

\* ================================================================ claims
\* What the claims speak of, stated on the text and on the observers alone.
Called == last.op # "none"

ConfigSet(config) == { config[i] : i \in 1..Len(config) }

SectionSet(shares) ==
  { <<shares[i][1], ConfigSet(shares[i][2])>> : i \in 1..Len(shares) }

\* the reserved section names of the specification
ReservedSectionNames ==
  { <<"global">>, <<"printers">>, <<"print$">>, <<"homes">>, <<"netlogon">>,
    <<"profiles">>, <<"main">> }

IsBracketed(line) ==
  startswith(strip(line), <<"[">>) /\ endswith(strip(line), <<"]">>)

BracketName(line) == strip(Inner(strip(line)))

\* the index of the header line that opens the section of line i, 0 if none
RECURSIVE SectionHeaderOf(_, _)
SectionHeaderOf(content, i) ==
  IF i = 0 THEN 0
  ELSE IF IsBracketed(content[i]) THEN i
  ELSE SectionHeaderOf(content, i - 1)

\* The lines of a text, in order, that Want keeps; Want sees the line and
\* where it lies: "none" before the first header, "in" in a section whose
\* header Member accepts (the header line included), "out" in another one.
RECURSIVE SelectLines(_, _, _, _)
SelectLines(lines, Member(_), Want(_, _), where) ==
  IF lines = <<>> THEN <<>>
  ELSE LET here == IF IsBracketed(Head(lines))
                   THEN (IF Member(Head(lines)) THEN "in" ELSE "out")
                   ELSE where
       IN (IF Want(Head(lines), here) THEN <<Head(lines)>> ELSE <<>>)
          \o SelectLines(Tail(lines), Member, Want, here)

\* the non-blank lines that belong to sections with a name in names
SectionLines(content, names) ==
  LET Member(line) == BracketName(line) \in names
      Want(line, where) == where = "in" /\ strip(line) # <<>>
  IN SelectLines(content, Member, Want, "none")

HeaderPresent(content, name) ==
  \E i \in 1..Len(content) : IsBracketed(content[i]) /\ BracketName(content[i]) = name

\* a header named name with at least one setting line in its section
HasSection(content, name) ==
  \E i \in 1..Len(content) :
     /\ HasEq(content[i])
     /\ ~ IsBracketed(content[i])
     /\ SectionHeaderOf(content, i) # 0
     /\ BracketName(content[SectionHeaderOf(content, i)]) = name

\* C1: after any sequence of add/remove/update calls, parsing the file gives
\* the same sections, by name and key/value content, as the same calls
\* applied to the in-memory section map of the initial file.
C1_ParseOfFileEqualsMap ==
  smb_conf.exists => SectionSet(parse_shares(smb_conf.content)) = SectionSet(mem)

OnlyReservedSections(content) ==
  \A i \in 1..Len(content) :
     IsBracketed(content[i]) => BracketName(content[i]) \in ReservedSectionNames

SixSettings(username, args) ==
  << << <<"path">>, args[1] >>, << <<"valid users">>, username >>,
     << <<"read only">>, <<"no">> >>, << <<"browseable">>, args[2] >>,
     << <<"create mask">>, args[3] >>, << <<"directory mask">>, args[4] >> >>

\* C5: when add_user_share returns True, the share exists afterwards and its
\* configuration is the six settings path, valid users, read only,
\* browseable, create mask, directory mask, in this order, for any username.
C5_AddPostcondition ==
  (last.op = "add" /\ last.ok) =>
     /\ user_share_exists(smb_conf, last.username)
     /\ get_user_share_config(smb_conf, last.username)
          = SixSettings(last.username, last.args)

\* C6: when remove_user_share returns True, the share does not exist
\* afterwards and its configuration is None.
C6_RemovePostcondition ==
  (last.op = "remove" /\ last.ok) =>
     /\ ~ user_share_exists(smb_conf, last.username)
     /\ get_user_share_config(smb_conf, last.username) = None

SettingOfKeyword(k) ==
  IF k = <<"create_mask">> THEN <<"create mask">>
  ELSE IF k = <<"directory_mask">> THEN <<"directory mask">>
  ELSE k

\* C7: after a successful update_user_share(username, browseable=b,
\* create_mask=m) the setting 'browseable' is b and the setting 'create mask'
\* is m.
C7_UpdateOverwrites ==
  (last.op = "update" /\ last.ok) =>
     \A config \in {get_user_share_config(smb_conf, last.username)} :
        /\ config # None
        /\ \A i \in 1..Len(last.args) :
              /\ DictHas(config, SettingOfKeyword(last.args[i][1]))
              /\ DictGet(config, SettingOfKeyword(last.args[i][1])) = last.args[i][2]

PatchNames(patch) ==
  { patch[i][1] : i \in 1..Len(patch) }
    \cup { SettingOfKeyword(patch[i][1]) : i \in 1..Len(patch) }

\* C8: update_user_share changes only the settings named in the patch: the
\* other settings of the share keep their values, none is removed, and the
\* settings of every other share are unchanged.
C8_UpdateFrame ==
  (last.op = "update" /\ before.exists) =>
     \A old \in {parse_shares(before.content)},
        new \in {parse_shares(smb_conf.content)} :
        \A i \in 1..Len(old) :
          LET name == old[i][1]
              config == old[i][2]
          IN /\ DictHas(new, name)
             /\ IF name = last.username
                THEN \A j \in 1..Len(config) :
                        /\ DictHas(DictGet(new, name), config[j][1])
                        /\ config[j][1] \notin PatchNames(last.args)
                             => DictGet(DictGet(new, name), config[j][1]) = config[j][2]
                ELSE ConfigSet(DictGet(new, name)) = ConfigSet(config)

\* C9: add_user_share fails whenever the file already has a section named
\* username, and the file, the existing section with it, stays as it was.
C9_AddExistingFails ==
  (last.op = "add" /\ before.exists /\ HasSection(before.content, last.username)) =>
     (~ last.ok /\ smb_conf = before)

\* C10: remove_user_share and update_user_share fail whenever username is
\* absent from the file or is a reserved section name.
C10_RemoveUpdateNotFound ==
  (/\ last.op \in {"remove", "update"}
   /\ \/ ~ before.exists
      \/ ~ HeaderPresent(before.content, last.username)
      \/ last.username \in ReservedSectionNames) =>
     ~ last.ok

\* ------------------------------------------------- the amended statements
\* the names the rebuilder passes through, as written between the brackets
PassedThroughNames ==
  { <<"global">>, <<"printers">>, <<"print$">>, <<"homes">>, <<"netlogon">>,
    <<"profiles">> }

ExactName(line) == Inner(strip(line))

\* line i lies outside the user shares: before the first header, or in a
\* section whose header is exactly one of the passed-through names
OutsideUserShares(content, i) ==
  \/ SectionHeaderOf(content, i) = 0
  \/ ExactName(content[SectionHeaderOf(content, i)]) \in PassedThroughNames

OutsideLines(content) ==
  LET Member(line) == ExactName(line) \in PassedThroughNames
      Want(line, where) == where # "out"
  IN SelectLines(content, Member, Want, "none")

PassedThroughLines(content) ==
  LET Member(line) == ExactName(line) \in PassedThroughNames
      Want(line, where) == where = "in" /\ strip(line) # <<>>
  IN SelectLines(content, Member, Want, "none")

IsPrefix(s, t) == Len(s) <= Len(t) /\ SubSeq(t, 1, Len(s)) = s

IsComment(line) == startswith(strip(line), <<"#">>)

Count(content, line) == Cardinality({ i \in 1..Len(content) : content[i] = line })

OnlyPassedThroughSections(content) ==
  \A i \in 1..Len(content) :
     IsBracketed(content[i]) => ExactName(content[i]) \in PassedThroughNames

C11_AddGlobalFails ==
  (last.op = "add" /\ last.username = <<"global">>) =>
     /\ ~ last.ok
     /\ HeaderPresent(smb_conf.content, <<"global">>)
          => HeaderPresent(before.content, <<"global">>)

\* C12: a call that returns False leaves the file as it was before the call,
\* content and existence.
C12_NoPartialWrite ==
  (Called /\ ~ last.ok) => smb_conf = before

\* C13: a call that invokes write_config has first taken a backup in the same
\* call, and the backup file holds the content the file had before the write.
C13_BackupBeforeWrite ==
  (Called /\ last.wrote) =>
     /\ last.backed
     /\ backup.exists
     /\ backup.content = before.content

C13_Witness ==
  /\ Called /\ last.wrote /\ last.ok
  /\ smb_conf.content # before.content
  /\ backup = before

\* C14: when the backup step fails, because the file is missing or the copy
\* raises, the call returns False, write_config is not invoked and the file
\* is as it was.
C14_FailClosedBackup ==
  (Called /\ (~ before.exists \/ ~ last.copy_ok)) =>
     /\ ~ last.ok
     /\ ~ last.wrote
     /\ smb_conf = before

C14_Witness ==
  /\ last.op = "add" /\ before.exists /\ ~ last.copy_ok
  /\ ~ user_share_exists(before, last.username)
  /\ ~ last.ok /\ smb_conf = before

\* C16: after update_user_share(u, patch) has returned True, the same call
\* once more returns True again and leaves the same parsed section map,
\* names and settings.
C16_UpdateIdempotent ==
  (last.op = "update" /\ last.ok) =>
     \A again \in { update_result(smb_conf, backup, last.username, last.args, TRUE) },
        once \in { parse_shares(smb_conf.content) } :
        /\ again.ok
        /\ SectionSet(parse_shares(again.file.content)) = SectionSet(once)

C16_Witness ==
  /\ last.op = "update" /\ last.ok
  /\ last.username \notin PassedThroughNames
  /\ SectionSet(parse_shares(smb_conf.content))
       # SectionSet(parse_shares(before.content))
  /\ update_result(smb_conf, backup, last.username, last.args, TRUE).file.content
       # smb_conf.content

\* C17: for a username without a section in the file, add_user_share followed
\* by remove_user_share leaves a file whose parsed section map is the one of
\* the original file.
C17_AddRemoveInverse ==
  (last.op = "add" /\ last.ok /\ ~ HeaderPresent(before.content, last.username)) =>
     \A back \in { remove_result(smb_conf, backup, last.username, TRUE) } :
        SectionSet(parse_shares(back.file.content))
          = SectionSet(parse_shares(before.content))

\* ------------------------------------------------- the read-only calls
\* a line key = value that is no section header
IsSettingLine(line) ==
  HasEq(strip(line)) /\ ~ (startswith(strip(line), <<"[">>) /\ endswith(strip(line), <<"]">>))

KeyOf(line) == strip(SplitKey(strip(line)))

ValueOf(line) == strip(SplitValue(strip(line)))

\* the line after the last line of the section that the parser opens at
\* line h: the next line the parser takes for a header, or the end
SectionEnd(text, h) ==
  IF \E i \in (h + 1)..Len(text) : IsParseHeader(strip(text[i]))
  THEN CHOOSE i \in (h + 1)..Len(text) :
         /\ IsParseHeader(strip(text[i]))
         /\ \A j \in (h + 1)..(i - 1) : ~ IsParseHeader(strip(text[j]))
  ELSE Len(text) + 1

\* line h opens a section that holds a setting line
FilledSection(text, h) ==
  /\ IsParseHeader(strip(text[h]))
  /\ \E j \in (h + 1)..(SectionEnd(text, h) - 1) : IsSettingLine(text[j])

\* line h opens the section the parse result keeps under its name
KeptSection(text, h) ==
  /\ FilledSection(text, h)
  /\ \A g \in (h + 1)..Len(text) :
        FilledSection(text, g) => Inner(strip(text[g])) # Inner(strip(text[h]))

C19_GlobalParsedLikeAnyOther ==
  (last.op = "parse_shares") =>
     \A h \in 1..(Len(smb_conf.content) - 1) :
        (/\ strip(smb_conf.content[h]) = Header("global")
         /\ IsSettingLine(smb_conf.content[h + 1])) =>
           /\ DictHas(ret, <<"global">>)
           /\ DictHas(DictGet(ret, <<"global">>), KeyOf(smb_conf.content[h + 1]))

FiveNames ==
  { <<"printers">>, <<"print$">>, <<"homes">>, <<"netlogon">>, <<"profiles">> }

\* C20: list_user_shares returns one entry, with the parsed settings, for
\* every parsed section whose name is not printers, print$, homes, netlogon
\* or profiles (main is listed), in the order of the parse, and no entry for
\* one of these five names.
C20_ListUserShares ==
  (last.op = "list_user_shares" /\ smb_conf.exists) =>
     \A shares \in { parse_shares(smb_conf.content) } :
        /\ \A i \in 1..Len(ret) :
              /\ ret[i].username \notin FiveNames
              /\ DictHas(shares, ret[i].username)
              /\ ret[i].config = DictGet(shares, ret[i].username)
        /\ \A i \in 1..Len(shares) :
              shares[i][1] \notin FiveNames =>
                 Cardinality({ j \in 1..Len(ret) : ret[j].username = shares[i][1] }) = 1
        /\ \A i, j \in 1..Len(ret) :
              i < j => DictIndex(shares, ret[i].username) < DictIndex(shares, ret[j].username)

C20_Witness ==
  /\ last.op = "list_user_shares" /\ smb_conf.exists
  /\ DictHas(parse_shares(smb_conf.content), <<"main">>)
  /\ \E n \in FiveNames : DictHas(parse_shares(smb_conf.content), n)
  /\ \E i \in 1..Len(ret) : ret[i].username = <<"main">>

\* ------------------------------------------------------ overlapping calls
AllDone == proc # NoProc /\ \A p \in Procs : proc[p].pc = "done"

BothOk == \A p \in Procs : proc[p].ok

LastWriter == sched.writers[Len(sched.writers)]

\* the edit of a call is in the text
EditPresent(call, text) ==
  \A shares \in { parse_shares(text) } :
     IF call.op = "add"
     THEN /\ DictHas(shares, call.username)
          /\ DictGet(shares, call.username) = SixSettings(call.username, call.args)
     ELSE IF call.op = "remove" THEN ~ DictHas(shares, call.username)
     ELSE /\ DictHas(shares, call.username)
          /\ \A i \in 1..Len(call.args) :
                /\ DictHas(DictGet(shares, call.username), call.args[i][1])
                /\ DictGet(DictGet(shares, call.username), call.args[i][1])
                     = call.args[i][2]

\* C15: when two calls have run on the same file without a lock, the final
\* file is the text that the call that wrote last computed from its own
\* read; when one call ran after the other and both returned True, the
\* file holds both edits.
C15_LastWriterWins ==
  (AllDone /\ sched.writers # <<>>) =>
     /\ smb_conf.content
          = NewContent(proc[LastWriter].call, proc[LastWriter].content)
     /\ tail = NoTail
     /\ (BothOk /\ ~ sched.overlap) =>
           \A p \in Procs : EditPresent(proc[p].call, smb_conf.content)

\* ------------------------------------------------- format_share_config
\* C21: format_share_config(name, config) returns the line [name] followed
\* by one line '   key = value' (three-space indent) per setting, in the
\* stored key order, joined by newlines with no trailing newline.
C21_FormatShareConfig ==
  (last.op = "format_share_config") =>
     /\ Len(ret) = 1 + Len(last.args)
     /\ ret[1] = <<"[">> \o last.username \o <<"]">>
     /\ \A i \in 1..Len(last.args) :
           ret[i + 1] = <<"   ">> \o last.args[i][1] \o <<" ", "=", " ">>
                          \o last.args[i][2]
     /\ ret[Len(ret)] # <<>>

C21_Witness ==
  /\ last.op = "format_share_config"
  /\ Len(last.args) = 2
  /\ last.args[1][1] = <<"valid users">>
  /\ last.args[2][1] = <<"path">>
  /\ ret[2] = <<"   ", "valid users", " ", "=", " ">> \o last.args[1][2]

\* ------------------------------------------ create / remove_samba_user
\* C22: when create_samba_user or remove_samba_user has written the file and
\* the test_config that follows fails, the file is restored from the backup
\* taken before the write: after the call it is as it was before the call.
C22_ValidateAndRollBack ==
  (/\ last.op \in { "create_samba_user", "remove_samba_user" }
   /\ last.wrote
   /\ last.test_config = "invalid") =>
     smb_conf = before

\* C29: whenever remove_samba_user(username) returns True, the file has no
\* section named username afterwards, and its remove_user_share step has not
\* failed while a share for username existed.
C29_RemoveSambaUserRemoves ==
  (last.op = "remove_samba_user" /\ last.ok) =>
     /\ ~ HasSection(smb_conf.content, last.username)
     /\ ~ (~ last.removed /\ user_share_exists(before, last.username))

\* ----------------------------------------------------- CommandService
\* C23: every call of run appends exactly one CommandResult, the one it
\* returns, to command_history, also when the command fails, times out or
\* raises; get_history() returns the results in execution order,
\* get_last_result() the one appended last (None when the history is
\* empty), and clear_history() leaves the history empty.
C23_CommandHistory ==
  /\ (last.op = "run") => command_history = Append(before, ret)
  /\ (last.op = "get_history" /\ last.args = 0) =>
        /\ ret = command_history
        /\ \A i, j \in 1..Len(ret) : i < j => ret[i].timestamp < ret[j].timestamp
  /\ (last.op = "get_last_result") =>
        IF command_history = <<>> THEN ret = None
        ELSE /\ ret = command_history[Len(command_history)]
             /\ \A i \in 1..Len(command_history) :
                   command_history[i].timestamp <= ret.timestamp
  /\ (last.op = "clear_history") => command_history = <<>>

C23_Witness ==
  /\ last.op = "get_last_result"
  /\ Len(command_history) = 2
  /\ command_history[1].success
  /\ ~ ret.success
  /\ ret.return_code = -1
  /\ ret.timestamp = MaxHistory - 1

\* ------------------------------------------------- sections and headers
\* C24: every setting that parse_shares records in a section comes from a
\* setting line whose nearest preceding header line is the header of that
\* section; the settings under a [global] header that follows another
\* section are not recorded into that section.
C24_SettingAttribution ==
  (last.op = "parse_shares") =>
     \A text \in { smb_conf.content } :
        \A i \in 1..Len(ret) : \A j \in 1..Len(ret[i][2]) :
           \E k \in 1..Len(text) :
              /\ IsSettingLine(text[k])
              /\ KeyOf(text[k]) = ret[i][2][j][1]
              /\ ValueOf(text[k]) = ret[i][2][j][2]
              /\ SectionHeaderOf(text, k) # 0
              /\ ExactName(text[SectionHeaderOf(text, k)]) = ret[i][1]

\* C25: a header line whose bracketed content has surrounding whitespace
\* opens a section named by the trimmed content, in the parser and in the
\* rebuilder alike: the names parse_shares returns are trimmed, and the
\* rebuilder passes a [ global ] header through as it does [global].
C25_HeaderNameTrimmed ==
  /\ (last.op = "parse_shares") =>
        \A i \in 1..Len(ret) : ret[i][1] = strip(ret[i][1])
  /\ (last.op = "_rebuild_config_content") =>
        \A k \in 1..Len(smb_conf.content) :
           (/\ IsBracketed(smb_conf.content[k])
            /\ BracketName(smb_conf.content[k]) = <<"global">>) =>
              \E n \in 1..Len(ret) : ret[n] = smb_conf.content[k]

\* the user shares of a map, in map order: the entries whose name is not
\* one of the passed-through names
RECURSIVE UserEntries(_)
UserEntries(shares) ==
  IF shares = <<>> THEN <<>>
  ELSE (IF Head(shares)[1] \notin PassedThroughNames THEN <<Head(shares)>> ELSE <<>>)
       \o UserEntries(Tail(shares))

\* one blank line and the formatted section, for every entry in order
RECURSIVE AppendedBlock(_)
AppendedBlock(entries) ==
  IF entries = <<>> THEN <<>>
  ELSE << <<>> >> \o format_share_config(Head(entries)[1], Head(entries)[2])
       \o AppendedBlock(Tail(entries))

HeaderCount(text, name) ==
  Cardinality({ k \in 1..Len(text) : IsBracketed(text[k]) /\ ExactName(text[k]) = name })

\* C26: the text rebuild(originalText, updatedMap) is the lines of the
\* original outside the user shares followed, for every user share of the
\* map in map order, by one blank line and its formatted section; every
\* user-share name of the map is a header exactly once, and no user-share
\* header of the original that is absent from the map is in the output.
C26_RebuildShape ==
  (last.op = "_rebuild_config_content") =>
     \A text \in { smb_conf.content }, entries \in { UserEntries(last.args) } :
        /\ ret = Join(OutsideLines(text) \o AppendedBlock(entries))
        /\ \A i \in 1..Len(entries) : HeaderCount(ret, entries[i][1]) = 1
        /\ \A k \in 1..Len(text) :
              (/\ IsBracketed(text[k])
               /\ ExactName(text[k]) \notin PassedThroughNames
               /\ ~ DictHas(last.args, ExactName(text[k]))) =>
                 HeaderCount(ret, ExactName(text[k])) = 0

C26_Witness ==
  /\ last.op = "_rebuild_config_content"
  /\ Len(UserEntries(last.args)) = 2
  /\ DictHas(last.args, <<"eric">>)
  /\ HeaderCount(smb_conf.content, <<"eric">>) = 1
  /\ HeaderCount(smb_conf.content, <<"main">>) = 1
  /\ HeaderCount(smb_conf.content, <<"global">>) = 1
  /\ HeaderCount(ret, <<"eric">>) = 1
  /\ HeaderCount(ret, <<"main">>) = 0

\* C27: rebuild is idempotent on its own output: for a text t and the map
\* m = parse(t), rebuild(rebuild(t, m), m) is rebuild(t, m).
C27_RebuildIdempotent ==
  (/\ last.op = "_rebuild_config_content"
   /\ last.args = parse_shares(smb_conf.content)) =>
     _rebuild_config_content(ret, last.args) = ret

\* C28: for every name n and every file, user_share_exists(n) is True if and
\* only if list_user_shares() has an entry with username n, if and only if
\* the rebuilder writes the section n anew from the map.
C28_ConsistentClassification ==
  (last.op = "list_user_shares" /\ smb_conf.exists) =>
     \A name \in { <<n>> : n \in SectionNames } :
        /\ user_share_exists(smb_conf, name)
             <=> \E i \in 1..Len(ret) : ret[i].username = name
        /\ user_share_exists(smb_conf, name)
             <=> HeaderCount(RebuildAppend(parse_shares(smb_conf.content)), name) > 0

\* C30: when two add_user_share calls for the same username, absent from
\* the file, have run with their steps interleaved, at most one of them
\* has returned True, and the settings of the share in the final file are
\* those of the call that returned True.
C30_AtMostOneCreator ==
  (/\ AllDone
   /\ \A p \in Procs : proc[p].call.op = "add"
   /\ proc["A"].call.username = proc["B"].call.username
   /\ before.exists
   /\ ~ HeaderPresent(before.content, proc["A"].call.username)) =>
     /\ ~ BothOk
     /\ \A p \in Procs : proc[p].ok => EditPresent(proc[p].call, smb_conf.content)

====
